---- MODULE Spec2Model ----
(***************************************************************************)
(* Model of pycroscopy's HDF5 writer (core/io/hdf_writer.py) and of the    *)
(* descriptor classes it consumes (core/io/microdata.py).                  *)
(*                                                                         *)
(* Text is modelled as a sequence of one-character strings, so that the    *)
(* code's string operations (concatenation, `in`, split('_'), int(),       *)
(* '{:03d}'.format) are computed and not assumed.  A store path is such a  *)
(* text with "/" separators; a store object is identified by the sequence  *)
(* of its path components (<<>> is the file / root group).                 *)
(*                                                                         *)
(* The h5py store is an external collaborator.  It is modelled at the      *)
(* call sites of the writer: children are listed in ascending name order   *)
(* (h5py's default), repeated "/" in a path are ignored on lookup, and     *)
(* Group.keys() is indexable (the list the writer's code takes it for).    *)
(* The chunking, compression and dtype arguments of MicroDataset keep      *)
(* their defaults (None) throughout.                                       *)
(***************************************************************************)
EXTENDS Integers, Sequences, FiniteSets, TLC

\* ------------------------------------------------------------------ bounds
MaxWrites == 3     \* calls of write() in a run
MaxCalls == 4      \* creation requests of one write() the store may reject
MaxRegions == 2    \* regions of a labels dictionary
MaxElems == 3      \* elements of a collection handed to clean_string_att
MaxApply == 2      \* applications of clean_string_att to one value

\* -------------------------------------------------------------------- text
Digits == <<"0", "1", "2", "3", "4", "5", "6", "7", "8", "9">>

\* ASCII code of a character: the store lists names in this order
Ord(c) ==
  CASE c = "/" -> 47
    [] c = "0" -> 48 [] c = "1" -> 49 [] c = "2" -> 50 [] c = "3" -> 51
    [] c = "4" -> 52 [] c = "5" -> 53 [] c = "6" -> 54 [] c = "7" -> 55
    [] c = "8" -> 56 [] c = "9" -> 57
    [] c = "A" -> 65 [] c = "B" -> 66 [] c = "R" -> 82
    [] c = "_" -> 95
    [] c = "a" -> 97 [] c = "d" -> 100 [] c = "e" -> 101
    [] OTHER -> 127

RECURSIVE StrLess(_, _)
StrLess(a, b) ==
  IF a = <<>> THEN b # <<>>
  ELSE IF b = <<>> THEN FALSE
  ELSE IF Ord(a[1]) # Ord(b[1]) THEN Ord(a[1]) < Ord(b[1])
  ELSE StrLess(Tail(a), Tail(b))

\* Python's `b in k` on text
IsSubstr(b, k) ==
  \E i \in 0..(Len(k) - Len(b)) : SubSeq(k, i + 1, i + Len(b)) = b

\* k.split('_')[-1]
AfterLastUnderscore(k) ==
  LET us == {i \in 1..Len(k) : k[i] = "_"}
      lastU == IF us = {} THEN 0 ELSE CHOOSE i \in us : \A j \in us : j <= i
  IN SubSeq(k, lastU + 1, Len(k))

IsDigit(c) == \E i \in 1..10 : Digits[i] = c
DigitVal(c) == (CHOOSE i \in 1..10 : Digits[i] = c) - 1

RECURSIVE IntOf(_)
IntOf(s) ==
  IF s = <<>> THEN 0
  ELSE IntOf(SubSeq(s, 1, Len(s) - 1)) * 10 + DigitVal(s[Len(s)])

\* int(s); -1 stands for the ValueError int() raises on non-numeric text
ParseInt(s) ==
  IF s # <<>> /\ \A i \in 1..Len(s) : IsDigit(s[i]) THEN IntOf(s) ELSE -1

RECURSIVE Dec(_)
Dec(n) ==
  IF n < 10 THEN <<Digits[n + 1]>>
  ELSE Dec(n \div 10) \o <<Digits[(n % 10) + 1]>>

\* '{:03d}'.format(n)
Format03(n) ==
  LET d == Dec(n)
  IN IF Len(d) >= 3 THEN d ELSE [i \in 1..(3 - Len(d)) |-> "0"] \o d

\* ------------------------------------------------------------------- paths
RECURSIVE SplitAcc(_, _, _, _)
SplitAcc(p, i, cur, acc) ==
  IF i > Len(p) THEN (IF cur = <<>> THEN acc ELSE Append(acc, cur))
  ELSE IF p[i] = "/"
       THEN SplitAcc(p, i + 1, <<>>, IF cur = <<>> THEN acc ELSE Append(acc, cur))
       ELSE SplitAcc(p, i + 1, Append(cur, p[i]), acc)

\* components h5_file[p] walks: empty components (repeated "/") are ignored
Resolve(p) == SplitAcc(p, 1, <<>>, <<>>)

\* the .name of a store object: its canonical absolute path
RECURSIVE HName(_)
HName(comps) ==
  IF comps = <<>> THEN <<"/">>
  ELSE IF Len(comps) = 1 THEN <<"/">> \o comps[1]
  ELSE HName(SubSeq(comps, 1, Len(comps) - 1)) \o <<"/">> \o comps[Len(comps)]

\* -------------------------------------------------------- attribute values
\* an attribute value: t is its Python type, s its text (scalars), e its
\* elements (collections), each element a record [t, s]
Text(x) == [t |-> "text", s |-> x, e |-> <<>>]
NoneVal == [t |-> "none", s |-> "", e |-> <<>>]
List(es) == [t |-> "list", s |-> "", e |-> es]

NpStr(x) == [t |-> "npstr", s |-> x, e |-> <<>>]      \* np.str_(x)
Num(x) == [t |-> "num", s |-> x, e |-> <<>>]

\* isinstance(v, Iterable): text, collections and numpy arrays (of any rank)
IsIterable(v) == v.t \in {"text", "npstr", "list", "sarr", "sarr0"}

\* [type(x) in [str, unicode, bytes] for x in v]: the characters of a text
\* are str; the elements of a byte-string array are np.bytes_, which is
\* neither str nor bytes for the comparison of types
TextFlags(v) ==
  IF v.t \in {"list", "sarr"}
  THEN [i \in 1..Len(v.e) |-> v.e[i].t \in {"text", "bytes"}]
  ELSE IF v.s = "" THEN <<>> ELSE <<TRUE>>

\* clean_string_att: text is returned as it is; an iterable value with a text
\* or bytes element becomes np.array(v, dtype='S'), an array of np.bytes_ of
\* the rank of v (rank 0 for a scalar); an empty np.str_ becomes str(v); any
\* other value is returned as it is.  Iterating an array of rank 0 raises
\* TypeError, which is raised again: the value of type "TypeError".
clean_string_att(v) ==
  IF IsIterable(v) /\ v.t = "text" THEN v
  ELSE IF IsIterable(v) /\ v.t = "sarr0" THEN [t |-> "TypeError", s |-> "", e |-> <<>>]
  ELSE IF IsIterable(v) /\ \E i \in 1..Len(TextFlags(v)) : TextFlags(v)[i]
       THEN IF v.t = "npstr" THEN [t |-> "sarr0", s |-> v.s, e |-> <<>>]
            ELSE [t |-> "sarr", s |-> "",
                  e |-> [i \in 1..Len(v.e) |-> [t |-> "npbytes", s |-> v.e[i].s]]]
  ELSE IF v.t = "npstr" THEN Text(v.s)
  ELSE v

\* ------------------------------------------------------------------- store
EmptyAttrs == [k \in {} |-> NoneVal]
NoneDim == -1     \* a None entry of a shape tuple

GroupObj == [kind |-> "group", attrs |-> EmptyAttrs,
             shape |-> <<>>, maxshape |-> <<>>, vals |-> <<>>]

\* a newly created (or truncated) file: the root group alone
EmptyStore == (<<>> :> GroupObj)

SetAttr(o, k, v) == [o EXCEPT !.attrs = (k :> v) @@ @]

RECURSIVE SortNames(_)
SortNames(S) ==
  IF S = {} THEN <<>>
  ELSE LET m == CHOOSE x \in S : \A y \in S : x = y \/ StrLess(x, y)
       IN <<m>> \o SortNames(S \ {m})

\* h5_group.keys(): the names of the members of group g, in listing order
Keys(objs, g) ==
  SortNames({p[Len(p)] : p \in {q \in DOMAIN objs :
                Len(q) = Len(g) + 1 /\ SubSeq(q, 1, Len(g)) = g}})

\* (looks the name up among the members of the file root, not of the group)
InKeys_InFile(objs, g, nm) == <<nm>> \in DOMAIN objs

\* microdset.name in h5_group.keys()
InKeys(objs, g, nm) == Append(g, nm) \in DOMAIN objs

RECURSIVE Prod(_)
Prod(dims) == IF dims = <<>> THEN 1 ELSE dims[1] * Prod(Tail(dims))

\* the content of a dataset created from a shape alone: the fill value
Fill(dims) == [i \in 1..Prod(dims) |-> 0]

\* ------------------------------------------------------------- descriptors
NoData == [present |-> FALSE, shape |-> <<>>, vals |-> <<>>]
Arr(shape, vals) == [present |-> TRUE, shape |-> shape, vals |-> vals]
NoShape == [present |-> FALSE, dims |-> <<>>]
Shape(dims) == [present |-> TRUE, dims |-> dims]

Slash == <<"/">>

\* the descriptor objects the caller holds
\*   1 ''  (the file) -> [2 'A' -> [4 'R_' -> [6 'd'], 5 'e'], 3 'd'];  7: a leaf
Nodes == 1..7
GroupNodes == {1, 2, 4}
LeafSlot == 7
Kids(n) == CASE n = 1 -> <<2, 3>> [] n = 2 -> <<4, 5>> [] n = 4 -> <<6>>
             [] OTHER -> <<>>
CtorName(n) == CASE n = 1 -> <<>> [] n = 2 -> <<"A">> [] n = 4 -> <<"R", "_">>
                 [] n = 3 -> <<"d">> [] n = 5 -> <<"e">> [] n = 6 -> <<"d">>
                 [] OTHER -> <<"A">>
CtorAttrs(n) == CASE n = 1 -> <<[k |-> "user", val |-> List(<<[t |-> "text", s |-> "u"]>>)]>>
                  [] n = 2 -> <<[k |-> "note", val |-> NoneVal]>>
                  [] n = 3 -> <<[k |-> "units", val |-> Text("V")]>>
                  [] OTHER -> <<>>

\* MicroData.__init__
MicroData(name, parent, attrs) ==
  [kind |-> "leaf", name |-> name, parent |-> parent, indexed |-> FALSE,
   attrs |-> attrs, children |-> <<>>,
   data |-> NoData, maxshape |-> NoShape, resizable |-> FALSE]

\* MicroDataGroup.__init__ with the default parent '/'; children are attached
\* by add_children
MicroDataGroup(name, attrs, children) ==
  [MicroData(name, Slash, attrs) EXCEPT
     !.kind = "group",
     !.attrs = attrs \o <<[k |-> "machine_id", val |-> Text("host")],
                          [k |-> "timestamp", val |-> Text("ts")]>>,
     !.indexed = (name # <<>> /\ name[Len(name)] = "_"),
     !.children = children]

\* add_children: every child's parent becomes self.parent + self.name
add_children(D, n) ==
  [c \in DOMAIN D |->
     IF \E i \in 1..Len(D[n].children) : D[n].children[i] = c
     THEN [D[c] EXCEPT !.parent = D[n].parent \o D[n].name]
     ELSE D[c]]

NewGroupIn(D, n) ==
  add_children([D EXCEPT ![n] = MicroDataGroup(CtorName(n), CtorAttrs(n), Kids(n))], n)

_valid_shapes(ms, none_ok) ==
  ~ms.present \/ \A i \in 1..Len(ms.dims) :
                    IF ms.dims[i] = NoneDim THEN none_ok ELSE ms.dims[i] > 0

\* MicroDataset.__init__: "" when the descriptor is accepted, else the error
MicroDatasetError(data, maxshape) ==
  IF ~_valid_shapes(maxshape, TRUE) THEN "AssertionError"
  ELSE IF ~data.present /\ ~maxshape.present THEN "ValueError"
  ELSE IF maxshape.present /\ data.present /\ Len(data.shape) # Len(maxshape.dims)
       THEN "ValueError"
  ELSE IF maxshape.present /\ data.present
          /\ \E i \in 1..Len(maxshape.dims) :
                maxshape.dims[i] # NoneDim /\ maxshape.dims[i] < data.shape[i]
       THEN "ValueError"
  ELSE IF maxshape.present /\ ~data.present
          /\ \E i \in 1..Len(maxshape.dims) : maxshape.dims[i] = NoneDim
       THEN "ValueError"
  ELSE ""

MicroDataset(name, data, parent, resizable, maxshape, attrs) ==
  [MicroData(name, parent, attrs) EXCEPT
     !.data = data, !.resizable = resizable, !.maxshape = maxshape]

\* ------------------------------------------------------------------ writer
\* The state a call of write() works on.  refs is ref_list (each handle is
\* kept with the descriptor it was created for), err the exception in
\* flight ("" when none), calls the number of creation requests sent to the
\* store by this call, rejected whether the store refused one of them, ret
\* the handle returned by the last creation and log one entry per
\* _create_group / _create_dataset call.
version == "0.59"

World(objs0, desc0, open0) ==
  [objs |-> objs0, desc |-> desc0, open |-> open0, flushed |-> FALSE,
   refs |-> <<>>, err |-> "", calls |-> 0, rejected |-> FALSE, ret |-> <<>>,
   log |-> <<>>]

Raise(W, e) == [W EXCEPT !.err = e]

\* h5_file.flush(); h5_file.close(); raise
FlushCloseRaise(W, e) == [W EXCEPT !.err = e, !.flushed = TRUE, !.open = FALSE]

\* the store refuses a creation request
Rejected(W) == [W EXCEPT !.rejected = TRUE]

Entry(op, W, Wr, g, n, strategy) ==
  [op |-> op, node |-> n, g |-> g, base |-> W.desc[n].name,
   final |-> Wr.desc[n].name, indexed |-> W.desc[n].indexed,
   keys |-> IF g \in DOMAIN W.objs THEN Keys(W.objs, g) ELSE <<>>,
   pre |-> W.objs, post |-> Wr.objs, err |-> Wr.err, h |-> Wr.ret,
   open |-> Wr.open, flushed |-> Wr.flushed, strategy |-> strategy,
   src |-> W.desc[n]]

\* the attribute loop of _create_group: None values are skipped
RECURSIVE GroupAttrs(_, _)
GroupAttrs(o, attrs) ==
  IF attrs = <<>> THEN o
  ELSE GroupAttrs(IF attrs[1].val.t = "none" THEN o
                  ELSE SetAttr(o, attrs[1].k, clean_string_att(attrs[1].val)),
                  Tail(attrs))

\* the attribute loop of write() (file attributes)
RECURSIVE PlainAttrs(_, _)
PlainAttrs(o, attrs) ==
  IF attrs = <<>> THEN o
  ELSE PlainAttrs(SetAttr(o, attrs[1].k, clean_string_att(attrs[1].val)),
                  Tail(attrs))

\* slice(start, stop), NoneDim standing for None; a region of the 'labels'
\* dictionary is a name and a tuple of slices, the dictionary a sequence of
\* regions in its iteration order
Slice(start, stop) == [start |-> start, stop |-> stop]
Region(name, slices) == [name |-> name, sl |-> slices]
Labels(regions) == [t |-> "labels", s |-> "", e |-> regions]

\* dataset.regionref[slices]
RegionRef(slices) == [t |-> "regionref", s |-> "", e |-> slices]

\* (every slice tuple is taken to fit the dataset)
DimsMatch_Always(o, region) == TRUE

\* len(slices[sl]) == len(dataset.shape)
DimsMatch(o, region) == Len(region.sl) = Len(o.shape)

\* __write_region_references(dataset, slices): the dataset with the
\* references written so far, and the exception raised ("" when none)
RECURSIVE write_region_references(_, _)
write_region_references(o, regions) ==
  IF regions = <<>> THEN [o |-> o, err |-> ""]
  ELSE IF DimsMatch(o, regions[1])
       THEN write_region_references(
              SetAttr(o, regions[1].name, RegionRef(regions[1].sl)), Tail(regions))
       ELSE [o |-> o, err |-> "ValueError"]

\* the search for dimen over the slices of the first region: the position
\* (from 1) of its first slice with a start, 0 when found_dim stays False
FoundDim(regions) ==
  LET sl == regions[1].sl
      found == {i \in 1..Len(sl) : sl[i].start # NoneDim}
  IN IF found = {} THEN 0 ELSE CHOOSE i \in found : \A j \in found : i <= j

\* headers[labels[col_name][dimen].start] = col_name, for every region: a
\* start of None or beyond the list raises
RECURSIVE FillHeaders(_, _, _)
FillHeaders(headers, regions, dimen) ==
  IF regions = <<>> THEN [h |-> headers, err |-> ""]
  ELSE IF dimen > Len(regions[1].sl) THEN [h |-> headers, err |-> "IndexError"]
  ELSE LET start == regions[1].sl[dimen].start
       IN IF start = NoneDim THEN [h |-> headers, err |-> "TypeError"]
          ELSE IF start >= Len(headers) THEN [h |-> headers, err |-> "IndexError"]
          ELSE FillHeaders([headers EXCEPT ![start + 1] =
                                [t |-> "text", s |-> regions[1].name]],
                           Tail(regions), dimen)

\* __write_attributes(microdset, h5_dset): the dataset with the attributes
\* written so far, and the exception raised ("" when none)
RECURSIVE write_attributes(_, _)
write_attributes(o, attrs) ==
  IF attrs = <<>> THEN [o |-> o, err |-> ""]
  ELSE IF attrs[1].k = "labels"
  THEN LET labels == attrs[1].val.e
           Header(r, f) ==
             IF f.err # "" THEN [o |-> r.o, err |-> f.err]
             ELSE write_attributes(SetAttr(r.o, "labels", clean_string_att(List(f.h))),
                                   Tail(attrs))
           Referenced(r, dimen) ==
             IF r.err # "" THEN r
             ELSE IF labels = <<>> THEN [o |-> r.o, err |-> "IndexError"]
             ELSE IF dimen = 0 THEN write_attributes(r.o, Tail(attrs))
             ELSE Header(r, FillHeaders([i \in 1..Len(labels) |-> [t |-> "none", s |-> "None"]],
                                        labels, dimen))
       IN Referenced(write_region_references(o, labels), FoundDim(labels))
  ELSE LET c == clean_string_att(attrs[1].val)
       IN IF c.t = "TypeError" THEN [o |-> o, err |-> "TypeError"]
          ELSE write_attributes(SetAttr(o, attrs[1].k, c), Tail(attrs))

\* (takes the first matching member, previous[0], not the last)
GroupIndex_First(keys, name) ==
  LET previous == {i \in 1..Len(keys) : IsSubstr(name, keys[i])}
  IN IF previous = {} THEN 0
     ELSE LET last == keys[CHOOSE i \in previous : \A j \in previous : i <= j]
              parsed == ParseInt(AfterLastUnderscore(last))
          IN IF parsed < 0 THEN -1 ELSE parsed + 1

\* the index of an auto-indexed group: -1 stands for the ValueError of int()
GroupIndex(keys, name) ==
  LET previous == {i \in 1..Len(keys) : IsSubstr(name, keys[i])}
  IN IF previous = {} THEN 0
     ELSE LET last == keys[CHOOSE i \in previous : \A j \in previous : j <= i]
              parsed == ParseInt(AfterLastUnderscore(last))
          IN IF parsed < 0 THEN -1 ELSE parsed + 1

\* _create_group(h5_group, micro_group).  The store rejects the fa-th creation
\* request of the call with an exception of class fk, unless the name exists,
\* which is the ValueError the code expects.
CreateGroupCore(W, g, n, fa, fk) ==
  IF W.desc[n].kind # "group" \/ W.objs[g].kind # "group"
  THEN Raise(W, "AssertionError")
  ELSE
    LET mg == W.desc[n]
        WithName(name) ==
          LET h == Append(g, name)
              W1 == [W EXCEPT !.desc[n].name = name, !.calls = @ + 1]
              exists == h \in DOMAIN W.objs
              rejected == ~exists /\ W1.calls = fa
          IN IF rejected /\ fk = "ValueError"
             THEN Raise(Rejected(W1), "KeyError")   \* except ValueError: h5_group[name]
             ELSE IF rejected THEN FlushCloseRaise(Rejected(W1), fk)
             ELSE LET objs1 == IF exists THEN W.objs ELSE (h :> GroupObj) @@ W.objs
                  IN [W1 EXCEPT !.objs = [objs1 EXCEPT ![h] = GroupAttrs(@, mg.attrs)],
                                !.ret = h]
        WithIndex(index) ==
          IF index < 0 THEN Raise(W, "BadIndex")
          ELSE WithName(IF mg.indexed THEN mg.name \o Format03(index) ELSE mg.name)
    IN WithIndex(IF mg.indexed THEN GroupIndex(Keys(W.objs, g), mg.name) ELSE 0)

_create_group(W, g, n, fa, fk) ==
  LET Logged(Wr) == [Wr EXCEPT !.log = Append(@, Entry("group", W, Wr, g, n, ""))]
  IN Logged(CreateGroupCore(W, g, n, fa, fk))

\* the branch of _create_dataset taken for a leaf
Strategy(d) ==
  IF ~d.resizable
  THEN IF ~(d.maxshape.present /\ d.maxshape.dims # <<>>) THEN "simple" ELSE "empty"
  ELSE "resizable"

\* what build_func asks of the store; in place of a dataset, the exception
\* of evaluating microdset.data.dtype without data (AttributeError) or of
\* the store refusing a shape with a None entry (TypeError)
_create_simple_dset(d) ==
  IF ~d.data.present THEN [GroupObj EXCEPT !.kind = "AttributeError"]
  ELSE [kind |-> "dataset", attrs |-> EmptyAttrs, shape |-> d.data.shape,
        maxshape |-> d.data.shape, vals |-> d.data.vals]

\* (passes data= to the store when the leaf has a payload)
_create_empty_dset_WithData(d) ==
  IF \E i \in 1..Len(d.maxshape.dims) : d.maxshape.dims[i] = NoneDim
  THEN [GroupObj EXCEPT !.kind = "TypeError"]
  ELSE [kind |-> "dataset", attrs |-> EmptyAttrs, shape |-> d.maxshape.dims,
        maxshape |-> d.maxshape.dims,
        vals |-> IF d.data.present THEN d.data.vals ELSE Fill(d.maxshape.dims)]

_create_empty_dset(d) ==
  IF \E i \in 1..Len(d.maxshape.dims) : d.maxshape.dims[i] = NoneDim
  THEN [GroupObj EXCEPT !.kind = "TypeError"]
  ELSE [kind |-> "dataset", attrs |-> EmptyAttrs, shape |-> d.maxshape.dims,
        maxshape |-> d.maxshape.dims, vals |-> Fill(d.maxshape.dims)]

_create_resizeable_dset(d) ==
  IF ~d.data.present THEN [GroupObj EXCEPT !.kind = "AttributeError"]
  ELSE [kind |-> "dataset", attrs |-> EmptyAttrs, shape |-> d.data.shape,
        maxshape |-> [i \in 1..Len(d.data.shape) |-> NoneDim],
        vals |-> d.data.vals]

Build(d) ==
  CASE Strategy(d) = "simple" -> _create_simple_dset(d)
    [] Strategy(d) = "empty" -> _create_empty_dset(d)
    [] OTHER -> _create_resizeable_dset(d)

\* _create_dataset(h5_group, microdset)
CreateDatasetCore(W, g, n, fa, fk) ==
  IF W.desc[n].kind # "leaf" \/ W.objs[g].kind # "group"
  THEN Raise(W, "AssertionError")
  ELSE
    LET d == W.desc[n]
        h == Append(g, d.name)
    IN IF InKeys(W.objs, g, d.name) THEN Raise(W, "DuplicateName")
       ELSE
         LET W1 == [W EXCEPT !.calls = @ + 1]
             Attached(r) ==
               IF r.err # ""
               THEN Raise([W1 EXCEPT !.objs = (h :> r.o) @@ W.objs], r.err)
               ELSE [W1 EXCEPT !.objs = (h :> r.o) @@ W.objs, !.ret = h]
             Built(b) ==
               IF b.kind = "AttributeError" THEN FlushCloseRaise(W1, b.kind)
               ELSE IF b.kind # "dataset" THEN FlushCloseRaise(Rejected(W1), b.kind)
               ELSE IF W1.calls = fa THEN FlushCloseRaise(Rejected(W1), fk)
               ELSE Attached(write_attributes(b, d.attrs))
         IN Built(Build(d))

_create_dataset(W, g, n, fa, fk) ==
  LET Logged(Wr) ==
        [Wr EXCEPT !.log = Append(@, Entry("dataset", W, Wr, g, n, Strategy(W.desc[n])))]
  IN Logged(CreateDatasetCore(W, g, n, fa, fk))

\* ref_list.append(h5_obj)
AppendRef(W, n) == [W EXCEPT !.refs = Append(@, [h |-> W.ret, node |-> n])]

RECURSIVE populate(_, _, _, _, _), PopulateAll(_, _, _, _, _)
\* __populate(child, parent)
populate(W, n, parent, fa, fk) ==
  IF W.err # "" THEN W
  ELSE
    LET Children(W2, W3) ==
          IF W3.err # "" THEN W3 ELSE AppendRef([W3 EXCEPT !.ret = W2.ret], n)
        Group(W2) ==
          IF W2.err # "" THEN W2
          ELSE Children(W2, PopulateAll(W2, W2.desc[n].children,
                                        parent \o Slash \o W2.desc[n].name, fa, fk))
        Leaf(W2) == IF W2.err # "" THEN W2 ELSE AppendRef(W2, n)
        Node(W1, g) ==
          IF g \notin DOMAIN W1.objs THEN Raise(W1, "KeyError")
          ELSE IF W1.desc[n].kind = "group"
          THEN Group(_create_group(W1, g, n, fa, fk))
          ELSE Leaf(_create_dataset(W1, g, n, fa, fk))
    IN Node([W EXCEPT !.desc[n].parent = parent], Resolve(parent))

\* for ch in children: __populate(ch, parent)
PopulateAll(W, children, parent, fa, fk) ==
  IF children = <<>> \/ W.err # "" THEN W
  ELSE PopulateAll(populate(W, children[1], parent, fa, fk),
                   Tail(children), parent, fa, fk)

\* the version stamp write() starts with
Stamp(W) == [W EXCEPT !.objs[<<>>] = SetAttr(@, "Pycroscopy version", Text(version))]

\* HDFwriter.write(data) for a descriptor n
write(W0, n, fa, fk) ==
  LET data == W0.desc[n]
      Leaf(W1) == IF W1.err # "" THEN W1 ELSE AppendRef(W1, n)
      Root(W1) ==
        IF W1.err # "" THEN W1
        ELSE PopulateAll(W1, W1.desc[n].children, HName(W1.ret), fa, fk)
      Stamped(W, g) ==
        IF data.kind = "leaf"
        THEN IF g \notin DOMAIN W.objs THEN Raise(W, "MissingParent")
             ELSE Leaf(_create_dataset(W, g, n, fa, fk))
        ELSE IF data.name = <<>> /\ data.parent = Slash
        THEN PopulateAll([W EXCEPT !.objs[<<>>] = PlainAttrs(@, data.attrs)],
                         data.children, HName(<<>>), fa, fk)
        ELSE IF g \notin DOMAIN W.objs THEN Raise(W, "KeyError")
        ELSE Root(_create_group(W, g, n, fa, fk))
  IN Stamped(Stamp(W0), Resolve(data.parent))

\* ----------------------------------------------------------- state machine
VARIABLES objs, open, desc, writes, last
vars == <<objs, open, desc, writes, last>>

\* arguments the caller constructs the free-standing leaf with
LeafNames == {<<"A">>, <<"a", "R", "_", "0">>, <<"R", "_", "d">>}
LeafData == {NoData, Arr(<<1, 2>>, <<7, 8>>)}
LeafMaxShapes == {NoShape, Shape(<<>>), Shape(<<2>>), Shape(<<0, 2>>), Shape(<<1, 1>>),
                  Shape(<<1, 2>>), Shape(<<2, 2>>), Shape(<<NoneDim, 2>>)}
LeafParents == {Slash, <<"/", "X">>}
TreeNodes == {1, 2, 4}
FailKinds == {"ValueError", "RuntimeError"}

TreeLeaf(n) ==
  MicroDataset(CtorName(n), Arr(<<1, 2>>, <<7, 8>>), Slash, FALSE, NoShape, CtorAttrs(n))

\* the caller's descriptors, built bottom-up
InitDesc == NewGroupIn(NewGroupIn(NewGroupIn([n \in Nodes |-> TreeLeaf(n)], 4), 2), 1)

Note(op, n, W, pre, wasOpen) ==
  [op |-> op, node |-> n, err |-> W.err, refs |-> W.refs, log |-> W.log,
   pre |-> pre, flushed |-> W.flushed, rejected |-> W.rejected,
   wasOpen |-> wasOpen]

Idle(op, n, e) == Note(op, n, Raise(World(objs, desc, open), e), objs, open)

Init ==
  /\ objs = EmptyStore
  /\ open = TRUE
  /\ desc = InitDesc
  /\ writes = 0
  /\ last = Idle("init", 0, "")

\* MicroDataGroup(name, children=[...]): the caller builds group n anew
NewGroup(n) ==
  /\ desc' = NewGroupIn(desc, n)
  /\ last' = Idle("new_group", n, "")
  /\ UNCHANGED <<objs, open, writes>>

\* MicroDataset(name, data, parent=, resizable=, maxshape=)
NewLeaf(name, data, parent, resizable, maxshape) ==
  LET e == MicroDatasetError(data, maxshape)
  IN /\ desc' = IF e = "" THEN [desc EXCEPT ![LeafSlot] =
                       MicroDataset(name, data, parent, resizable, maxshape, <<>>)]
                ELSE desc
     /\ last' = [Idle("new_leaf", LeafSlot, e) EXCEPT
                   !.log = <<[data |-> data, maxshape |-> maxshape,
                              resizable |-> resizable]>>]
     /\ UNCHANGED <<objs, open, writes>>

Commit(op, n, W) ==
  /\ objs' = W.objs
  /\ open' = W.open
  /\ desc' = W.desc
  /\ writes' = writes + 1
  /\ last' = Note(op, n, W, objs, open)

\* HDFwriter.write(data) with a descriptor
Write(n, fa, fk) ==
  /\ writes < MaxWrites
  /\ IF open THEN Commit("write", n, write(World(objs, desc, open), n, fa, fk))
     ELSE Commit("write", n, Raise(World(objs, desc, open), "ClosedFile"))

\* HDFwriter.write(data) with an object that is not a MicroData
WriteOther ==
  /\ writes < MaxWrites
  /\ IF open THEN Commit("write_other", 0, Raise(Stamp(World(objs, desc, open)), "TypeError"))
     ELSE Commit("write_other", 0, Raise(World(objs, desc, open), "ClosedFile"))

\* HDFwriter.close()
Close ==
  /\ open
  /\ open' = FALSE
  /\ last' = Idle("close", 0, "")
  /\ UNCHANGED <<objs, desc, writes>>

\* HDFwriter.delete(): close, remove the file, open an empty one
Delete ==
  /\ objs' = EmptyStore
  /\ open' = TRUE
  /\ last' = Idle("delete", 0, "")
  /\ UNCHANGED <<desc, writes>>

\* writes of descriptor trees, of a leaf and of other objects
Next ==
  \/ \E n \in {2, 4} : NewGroup(n)
  \/ \E n \in TreeNodes \cup {LeafSlot} : Write(n, 0, "RuntimeError")
  \/ \E n \in TreeNodes, fa \in 1..MaxCalls, fk \in FailKinds : Write(n, fa, fk)
  \/ WriteOther
  \/ Close
  \/ Delete

Spec == Init /\ [][Next]_vars

\* construction and writes of single leaves, over all argument shapes
NextLeaf ==
  \/ \E data \in LeafData, parent \in LeafParents,
        resizable \in BOOLEAN, maxshape \in LeafMaxShapes :
        NewLeaf(<<"A">>, data, parent, resizable, maxshape)
  \/ Write(LeafSlot, 0, "RuntimeError")
  \/ \E fk \in FailKinds : Write(LeafSlot, 1, fk)
  \/ Close
  \/ Delete

SpecLeaf == Init /\ [][NextLeaf]_vars

\* repeated writes of the auto-indexed group 'R_' under the file root, next
\* to datasets whose names may contain the group's name
NextIndex ==
  \/ NewGroup(4)
  \/ \E name \in LeafNames :
        NewLeaf(name, Arr(<<1, 2>>, <<7, 8>>), Slash, FALSE, NoShape)
  \/ \E n \in {4, LeafSlot} : Write(n, 0, "RuntimeError")
  \/ \E fa \in 1..2, fk \in FailKinds : Write(4, fa, fk)
  \/ Delete

SpecIndex == Init /\ [][NextIndex]_vars

\* ------------------------------------------------------- labelled leaves
\* the regions a caller names on a dataset of shape (1, 3)
RegionNames == <<"x", "y", "z">>
All == Slice(NoneDim, NoneDim)
AxisSlices ==
  {Slice(0, 1), Slice(1, 3), Slice(0, 2), Slice(2, 3), Slice(NoneDim, 1), All}
SliceTuples ==
  {<<All, sl>> : sl \in AxisSlices} \cup {<<Slice(0, 1), All>>, <<Slice(0, 1)>>}

LabelValues ==
  UNION {{Labels([i \in 1..k |-> Region(RegionNames[i], f[i])]) :
            f \in [1..k -> SliceTuples]} : k \in 0..MaxRegions}

\* MicroDataset('A', data, attrs={'units': .., 'labels': {..}, 'note': ..}),
\* described for a file that holds nothing yet
NewLabelled(labels) ==
  /\ objs = EmptyStore
  /\ desc' = [desc EXCEPT ![LeafSlot] =
        MicroDataset(<<"A">>, Arr(<<1, 3>>, <<7, 8, 9>>), Slash, FALSE, NoShape,
                     <<[k |-> "units", val |-> Text("V")],
                       [k |-> "labels", val |-> labels],
                       [k |-> "note", val |-> Text("n")]>>)]
  /\ last' = Idle("new_labelled", LeafSlot, "")
  /\ UNCHANGED <<objs, open, writes>>

\* construction and writes of leaves with region labels
NextLabels ==
  \/ \E labels \in LabelValues : NewLabelled(labels)
  \/ Write(LeafSlot, 0, "RuntimeError")
  \/ Delete

SpecLabels == Init /\ [][NextLabels]_vars

\* ------------------------------------------------------------- repack
\* repack() step by step.  While it runs, last holds its position pc, the
\* file at self.path ("original", "repacked" or "absent"), the temporary
\* file ("absent", "partial" or "complete") and the exception raised.
Repacking == last.op = "repack" /\ last.pc \notin {"done", "failed"}

RepackAt(pc, path, tmp, err) ==
  [op |-> "repack", pc |-> pc, path |-> path, tmp |-> tmp, err |-> err]

\* self.close(); tmpfile = self.path + '.tmp'
RepackClose ==
  /\ open /\ ~Repacking
  /\ open' = FALSE
  /\ last' = RepackAt("closed", "original", "absent", "")
  /\ UNCHANGED <<objs, desc, writes>>

\* subprocess.check_output(h5repack path tmpfile): the utility writes the
\* temporary file, or fails and leaves none or a part of it
RunUtility ==
  /\ last.op = "repack" /\ last.pc = "closed"
  /\ \/ last' = RepackAt("packed", last.path, "complete", "")
     \/ \E tmp \in {"absent", "partial"} :
          last' = RepackAt("failed", last.path, tmp, "Exception")
  /\ UNCHANGED <<objs, open, desc, writes>>

\* sleep(0.5); while time() - os.stat(tmpfile).st_mtime <= 1: sleep(0.5)
WaitStable ==
  /\ last.op = "repack" /\ last.pc = "packed"
  /\ last' = RepackAt("stable", last.path, last.tmp, "")
  /\ UNCHANGED <<objs, open, desc, writes>>

\* os.remove(self.path), which the system may refuse
RemoveOriginal ==
  /\ last.op = "repack" /\ last.pc = "stable"
  /\ \/ last' = RepackAt("removed", "absent", last.tmp, "")
     \/ last' = RepackAt("failed", last.path, last.tmp, "OSError")
  /\ UNCHANGED <<objs, open, desc, writes>>

\* os.rename(tmpfile, self.path), which the system may refuse
RenameTmp ==
  /\ last.op = "repack" /\ last.pc = "removed"
  /\ \/ last' = RepackAt("renamed", "repacked", "absent", "")
     \/ last' = RepackAt("failed", last.path, last.tmp, "OSError")
  /\ UNCHANGED <<objs, open, desc, writes>>

\* self.file = h5py.File(self.path, mode='r+')
Reopen ==
  /\ last.op = "repack" /\ last.pc = "renamed"
  /\ open' = TRUE
  /\ last' = RepackAt("done", last.path, last.tmp, "")
  /\ UNCHANGED <<objs, desc, writes>>

\* writes of trees and leaves, and repacks of the file between them
NextRepack ==
  \/ \E n \in {2, 3, LeafSlot} : ~Repacking /\ Write(n, 0, "RuntimeError")
  \/ RepackClose
  \/ RunUtility
  \/ WaitStable
  \/ RemoveOriginal
  \/ RenameTmp
  \/ Reopen

SpecRepack == Init /\ [][NextRepack]_vars

\* ------------------------------------------------- normalizer on its own
\* the values a caller hands to clean_string_att: text, None, numbers,
\* np.str_ scalars and lists of up to MaxElems elements
ElemValues ==
  {[t |-> "text", s |-> "a"], [t |-> "bytes", s |-> "b"],
   [t |-> "num", s |-> "1"], [t |-> "npstr", s |-> "w"]}

AttValues ==
  {Text(""), Text("a"), NoneVal, Num("1"), NpStr(""), NpStr("w")}
    \cup {List(es) : es \in UNION {[1..k -> ElemValues] : k \in 0..MaxElems}}

\* the caller holds a value att_val
InitNorm ==
  /\ objs = EmptyStore
  /\ open = TRUE
  /\ desc = InitDesc
  /\ writes = 0
  /\ \E v \in AttValues :
       last = [op |-> "value", x |-> v, n |-> 0, prev |-> v, y |-> v]

\* y = clean_string_att(y); a raised TypeError ends the computation
Normalize ==
  /\ last.op \in {"value", "normalize"}
  /\ last.n < MaxApply
  /\ last.y.t # "TypeError"
  /\ last' = [op |-> "normalize", x |-> last.x, n |-> last.n + 1,
              prev |-> last.y, y |-> clean_string_att(last.y)]
  /\ UNCHANGED <<objs, open, desc, writes>>

NextNorm == Normalize

SpecNorm == InitNorm /\ [][NextNorm]_vars

\* ------------------------------------------------------------------ claims
RECURSIVE Descendants(_)
Descendants(n) ==
  UNION {{Kids(n)[i]} \cup Descendants(Kids(n)[i]) : i \in 1..Len(Kids(n))}

\* the position of the handle created for descriptor n in the returned list
Pos(n) == CHOOSE i \in 1..Len(last.refs) : last.refs[i].node = n
Returned(n) == \E i \in 1..Len(last.refs) : last.refs[i].node = n

TreeWritten == last.op = "write" /\ last.node \in TreeNodes /\ last.err = ""

\* C1: the list write(root) returns for a composite root is in pre-order:
\* the handle of every composite node precedes the handles of its
\* descendants, and the handles of siblings follow the children list.
C1_PreOrder ==
  TreeWritten =>
    /\ \A n \in GroupNodes : \A m \in Descendants(n) :
         Returned(n) /\ Returned(m) => Pos(n) < Pos(m)
    /\ \A n \in GroupNodes : \A i, j \in 1..Len(Kids(n)) :
         i < j /\ Returned(Kids(n)[i]) /\ Returned(Kids(n)[j])
           => Pos(Kids(n)[i]) < Pos(Kids(n)[j])

Front(h) == SubSeq(h, 1, Len(h) - 1)

\* C2: after the write of a tree of depth >= 3, the parent path stored on
\* every descriptor below the root is the path of the group that holds the
\* object created for it.
C2_ParentPath ==
  TreeWritten /\ last.node \in {1, 2} =>
    \A i \in 1..Len(last.refs) :
      desc[last.refs[i].node].parent = HName(Front(last.refs[i].h))

WriteLog == IF last.op \in {"write", "write_other"} THEN last.log ELSE <<>>
LogEntries == {WriteLog[i] : i \in 1..Len(WriteLog)}

NameTaken(e) == Append(e.g, e.base) \in DOMAIN e.pre

\* C3: a group without auto-index whose name is a group of the parent is
\* attached to it: no error, no new object, the existing group is returned.
\* A leaf whose name is a member of the parent raises the duplicate-name
\* error and the store is left as it was.
C3_Collisions ==
  \A e \in LogEntries :
    /\ (e.op = "group" /\ ~e.indexed /\ e.pre[e.g].kind = "group" /\ NameTaken(e)
          /\ e.pre[Append(e.g, e.base)].kind = "group")
         => /\ e.err = ""
            /\ DOMAIN e.post = DOMAIN e.pre
            /\ e.h = Append(e.g, e.base)
            /\ e.post[e.h].kind = "group"
    /\ (e.op = "dataset" /\ e.pre[e.g].kind = "group" /\ NameTaken(e))
         => e.err = "DuplicateName" /\ e.post = e.pre

\* a write that attached to an existing group and then met a duplicate leaf
C3_Witness ==
  /\ \E e \in LogEntries : e.op = "group" /\ ~e.indexed /\ NameTaken(e) /\ e.err = ""
  /\ \E e \in LogEntries : e.op = "dataset" /\ NameTaken(e) /\ e.err = "DuplicateName"

\* an auto-indexed group creation that formed a final name
Indexed(e) == e.op = "group" /\ e.indexed /\ e.pre[e.g].kind = "group" /\ e.err # "BadIndex"

Matching(e) == {i \in 1..Len(e.keys) : IsSubstr(e.base, e.keys[i])}
LastMatching(e) == e.keys[CHOOSE i \in Matching(e) : \A j \in Matching(e) : j <= i]
Suffix(e) == SubSeq(e.final, Len(e.base) + 1, Len(e.final))

\* text is the decimal numeral of n, padded with zeros to three digits
Padded3(text, n) ==
  /\ Len(text) >= 3
  /\ \A i \in 1..Len(text) : IsDigit(text[i])
  /\ IntOf(text) = n
  /\ Len(text) > 3 => text[1] # "0"

\* C4: an auto-indexed group with base name B gets the final name B000 when
\* no member of the parent contains B, and otherwise B followed by n + 1
\* padded to three digits, n being the number after the last underscore of
\* the last member (in listing order) that contains B.
C4_FinalName ==
  \A e \in LogEntries : Indexed(e) =>
    /\ SubSeq(e.final, 1, Len(e.base)) = e.base
    /\ IF Matching(e) = {} THEN Suffix(e) = <<"0", "0", "0">>
       ELSE Padded3(Suffix(e), ParseInt(AfterLastUnderscore(LastMatching(e))) + 1)
    /\ (e.base = <<"R", "_">> /\ e.keys = <<<<"R", "_", "0", "0", "0">>>>)
         => e.final = <<"R", "_", "0", "0", "1">>

\* base 'R_' next to the single sibling 'R_000' became 'R_001'
C4_Witness ==
  \E e \in LogEntries :
    /\ Indexed(e) /\ e.base = <<"R", "_">> /\ e.err = ""
    /\ e.keys = <<<<"R", "_", "0", "0", "0">>>>
    /\ e.final = <<"R", "_", "0", "0", "1">>

\* C5: every creation of an auto-indexed group makes a new group: its final
\* name was not a member of the parent before the call.
C5_FreshName ==
  \A e \in LogEntries : Indexed(e) /\ e.err = "" => e.h \notin DOMAIN e.pre

\* C6: the name of an auto-indexed descriptor stays its base prefix: every
\* final name it is written under is the constructor's name followed by
\* exactly three digits.
C6_BasePrefix ==
  \A e \in LogEntries : Indexed(e) /\ e.err = "" =>
    /\ Len(e.final) = Len(CtorName(e.node)) + 3
    /\ SubSeq(e.final, 1, Len(CtorName(e.node))) = CtorName(e.node)
    /\ \A i \in (Len(CtorName(e.node)) + 1)..Len(e.final) : IsDigit(e.final[i])

\* a leaf materialization that produced a dataset
Made(e) == e.op = "dataset" /\ e.err = ""
AbsentOrEmpty(ms) == ~ms.present \/ ms.dims = <<>>

C8_ClosedOnRejection ==
  last.op = "write" /\ last.rejected => ~open /\ last.flushed

\* C9: write() of an object that is not a descriptor raises a type error and
\* leaves the store as it was.
C9_NoPartialWork ==
  last.op = "write_other" /\ last.wasOpen =>
    last.err = "TypeError" /\ objs = last.pre

HasNone(ms) == ms.present /\ \E i \in 1..Len(ms.dims) : ms.dims[i] = NoneDim

\* C10: the construction of a leaf that is not resizable and whose max_shape
\* has a None entry is rejected, so that no such leaf reaches the store.
C10_NoneRejected ==
  /\ (last.op = "new_leaf" /\ ~last.log[1].resizable /\ HasNone(last.log[1].maxshape))
       => last.err # ""
  /\ \A e \in LogEntries :
       e.op = "dataset" => ~(~e.src.resizable /\ HasNone(e.src.maxshape))

\* C16: group creation yields a group: where the final name is a dataset of
\* the parent, the dataset is not returned as the group's handle and none of
\* the descriptor's attributes are attached to it.
C16_GroupHandle ==
  \A e \in LogEntries :
    (e.op = "group" /\ e.pre[e.g].kind = "group" /\ e.err # "BadIndex"
       /\ Append(e.g, e.final) \in DOMAIN e.pre
       /\ e.pre[Append(e.g, e.final)].kind = "dataset")
      => /\ ~(e.err = "" /\ e.h = Append(e.g, e.final))
         /\ e.post[Append(e.g, e.final)].attrs = e.pre[Append(e.g, e.final)].attrs

\* C17: a leaf that construction accepted carries the payload its strategy
\* reads: eager-fixed and resizable materializations find data, and a
\* materialization under a parent without a name collision does not fail on
\* absent data nor close the store for it.
C17_PayloadPresent ==
  \A e \in LogEntries :
    (e.op = "dataset" /\ e.pre[e.g].kind = "group" /\ ~NameTaken(e)
       /\ e.strategy \in {"simple", "resizable"})
      => e.src.data.present /\ e.err # "AttributeError"

\* C11: normalize is idempotent: for a text, a collection with a text or
\* bytes element, or a np.str_ scalar, normalizing the normalized value
\* returns without error and returns the normalized value.
InNormDomain(v) ==
  \/ v.t \in {"text", "npstr"}
  \/ v.t = "list" /\ \E i \in 1..Len(v.e) : v.e[i].t \in {"text", "bytes"}

C11_Idempotent ==
  (last.op = "normalize" /\ last.n >= 2 /\ InNormDomain(last.x))
    => last.y.t # "TypeError" /\ last.y = last.prev

\* the _create_dataset calls that created a dataset for a leaf with a
\* 'labels' attribute; the dataset, the labels' place among the leaf's
\* attributes and the regions of the labels
LabelledEntries ==
  {e \in LogEntries :
     /\ e.op = "dataset"
     /\ Append(e.g, e.final) \in DOMAIN e.post \ DOMAIN e.pre
     /\ \E i \in 1..Len(e.src.attrs) : e.src.attrs[i].k = "labels"}

Dset(e) == e.post[Append(e.g, e.final)]
LabelPos(e) == CHOOSE i \in 1..Len(e.src.attrs) : e.src.attrs[i].k = "labels"
RegionsOf(e) == e.src.attrs[LabelPos(e)].val.e
Written(e, k) == k \in DOMAIN Dset(e).attrs
Misfit(e, j) == Len(RegionsOf(e)[j].sl) # Len(Dset(e).shape)

\* C12: where a region of a leaf's labels has a slice tuple whose length is
\* not the dataset's number of dimensions, attaching the attributes raises
\* and neither a reference for that region, nor the 'labels' header, nor any
\* attribute after 'labels' in the leaf's attribute order is written.
C12_MismatchStops ==
  \A e \in LabelledEntries :
    \A j \in 1..Len(RegionsOf(e)) :
      Misfit(e, j) =>
        /\ e.err # ""
        /\ ~Written(e, RegionsOf(e)[j].name)
        /\ ~Written(e, "labels")
        /\ \A i \in (LabelPos(e) + 1)..Len(e.src.attrs) : ~Written(e, e.src.attrs[i].k)

\* a write stopped at the second region of a labelled leaf: the first
\* region's reference and the attribute before 'labels' are in the store
C12_Witness ==
  \E e \in LabelledEntries :
    /\ Len(RegionsOf(e)) = 2
    /\ Misfit(e, 2) /\ ~Misfit(e, 1)
    /\ e.err = "ValueError"
    /\ Written(e, RegionsOf(e)[1].name)
    /\ LabelPos(e) > 1 /\ Written(e, e.src.attrs[1].k)
    /\ LabelPos(e) < Len(e.src.attrs)

\* the lowest axis (from 1) on which a region has a slice with a start, 0
\* when there is none
AnyAxis(regions) ==
  LET found == {a \in 1..3 : \E j \in 1..Len(regions) :
                  a <= Len(regions[j].sl) /\ regions[j].sl[a].start # NoneDim}
  IN IF found = {} THEN 0 ELSE CHOOSE a \in found : \A b \in found : a <= b

AllFit(e) == RegionsOf(e) # <<>> /\ \A j \in 1..Len(RegionsOf(e)) : ~Misfit(e, j)

\* C14: for labels whose regions fit the dataset (and whose starts are below
\* the number of regions), the 'labels' header is written exactly when some
\* region, the first or any other, has a slice with a start; when none has,
\* the header is skipped and every region's reference is written.
C14_HeaderAxis ==
  \A e \in LabelledEntries :
    (/\ AllFit(e)
     /\ \A j \in 1..Len(RegionsOf(e)) : \A a \in 1..Len(RegionsOf(e)[j].sl) :
          RegionsOf(e)[j].sl[a].start < Len(RegionsOf(e)))
      => /\ Written(e, "labels") <=> AnyAxis(RegionsOf(e)) # 0
         /\ AnyAxis(RegionsOf(e)) = 0
              => \A j \in 1..Len(RegionsOf(e)) : Written(e, RegionsOf(e)[j].name)

\* the cells of an axis of length N that a slice selects
Cells(sl, N) ==
  {c \in 0..(N - 1) : /\ (sl.start = NoneDim \/ sl.start <= c)
                      /\ (sl.stop = NoneDim \/ c < sl.stop)}

\* the regions' slices on axis a partition the axis
Partitions(e, a) ==
  LET R == RegionsOf(e)
      N == Dset(e).shape[a]
  IN /\ \A j \in 1..Len(R) : Cells(R[j].sl[a], N) # {}
     /\ \A i, j \in 1..Len(R) : i # j => Cells(R[i].sl[a], N) \cap Cells(R[j].sl[a], N) = {}
     /\ UNION {Cells(R[j].sl[a], N) : j \in 1..Len(R)} = 0..(N - 1)

\* the header holds every region's name once, in the order of the regions'
\* first cells on axis a, and nothing else
HeaderOrdered(e, a) ==
  LET R == RegionsOf(e)
      hdr == Dset(e).attrs["labels"].e
      N == Dset(e).shape[a]
      First(j) == CHOOSE c \in Cells(R[j].sl[a], N) : \A d \in Cells(R[j].sl[a], N) : c <= d
  IN /\ Len(hdr) = Len(R)
     /\ \A j \in 1..Len(R) : \E i \in 1..Len(hdr) :
           /\ hdr[i].s = R[j].name
           /\ \A k \in 1..Len(hdr) : hdr[k].s = R[j].name => k = i
     /\ \A i, j \in 1..Len(R) : \A p, q \in 1..Len(hdr) :
           (hdr[p].s = R[i].name /\ hdr[q].s = R[j].name /\ First(i) < First(j)) => p < q

\* C15: where the regions' slices partition an axis of the dataset, the
\* lowest one on which a slice has a start, header synthesis addresses no
\* slot outside 0..n-1 (raises no IndexError or TypeError), and a header
\* that is written has length n and holds every region's name once, without
\* an empty slot, in the order of the starts.
C15_HeaderSlots ==
  \A e \in LabelledEntries :
    \A a \in 1..Len(Dset(e).shape) :
      (AllFit(e) /\ a = AnyAxis(RegionsOf(e)) /\ Partitions(e, a))
        => /\ e.err \notin {"IndexError", "TypeError"}
           /\ Written(e, "labels") => HeaderOrdered(e, a)

\* C13: in every state of a repack, those after a failure of the utility, of
\* the removal or of the rename included, a file is at the store's path and
\* it is the whole original or the whole repacked file.
C13_FileAtPath ==
  last.op = "repack" => last.path \in {"original", "repacked"}
====
